---- MODULE Spec2Model ----
(***************************************************************************)
(* Model of mcmod-manager: the resolution-and-retrieval pipeline of        *)
(* src/mcmod_manager/cli.py and src/mcmod_manager/mod_session.py.          *)
(*                                                                         *)
(* Strings with dots (game versions) are sequences of their dot-separated  *)
(* components: "1.21.5" is <<"1", "21", "5">>.  Timestamps                 *)
(* (date_published, fixed-width ISO-8601 strings compared as strings) are  *)
(* integers with the same order.  File bodies are sequences of bytes.      *)
(***************************************************************************)
EXTENDS Integers, Sequences, FiniteSets, TLC

VARIABLES pc, session, config, args, idx, versions, optional, trace, fs, exc, ret

vars == <<pc, session, config, args, idx, versions, optional, trace, fs, exc, ret>>

----------------------------------------------------------------------------
(* Bounds *)

MaxProjects == 2
MaxOptional == 2
MaxFiles == 2
MaxCandidates == 3
MaxPublished == 2
MaxPayload == 1

----------------------------------------------------------------------------
(* Python values and the operations the code applies to them *)

None == [t |-> "NoneType"]

PyStr(s) == [t |-> "str", v |-> s]

PyList(l) == [t |-> "list", v |-> l]

\* s.rsplit(".", 1): a list of at most two strings, split at the last dot
str_rsplit(s) ==
    IF Len(s) <= 1
    THEN PyList(<<PyStr(s)>>)
    ELSE PyList(<<PyStr(SubSeq(s, 1, Len(s) - 1)), PyStr(<<s[Len(s)]>>)>>)

\* a + b: defined for two lists and for two strings; a list and a string
\* raise TypeError.  Two strings join at the boundary component (".x" is
\* <<"", "x">>: an empty component, a dot, "x").
py_add(a, b) ==
    IF a.t = "list" /\ b.t = "list"
    THEN [raised |-> FALSE, value |-> PyList(a.v \o b.v)]
    ELSE IF a.t = "str" /\ b.t = "str"
    THEN [raised |-> FALSE,
          value |-> IF b.v[1] = ""
                    THEN PyStr(a.v \o Tail(b.v))
                    ELSE PyStr(SubSeq(a.v, 1, Len(a.v) - 1) \o <<<<a.v[Len(a.v)], b.v[1]>>>>
                               \o Tail(b.v))]
    ELSE [raised |-> TRUE, exc |-> "TypeError"]

\* a lower() that leaves the string as it is
lower_unchanged(s) == s

\* str.lower() on the tokens of the catalog's enumerations
lower(s) ==
    CASE s \in {"required", "REQUIRED", "Required"} -> "required"
      [] s \in {"optional", "OPTIONAL", "Optional"} -> "optional"
      [] s \in {"incompatible", "INCOMPATIBLE", "Incompatible"} -> "incompatible"
      [] s \in {"embedded", "EMBEDDED", "Embedded"} -> "embedded"
      [] s \in {"fabric", "FABRIC", "Fabric"} -> "fabric"
      [] s \in {"forge", "FORGE", "Forge"} -> "forge"
      [] OTHER -> s

----------------------------------------------------------------------------
(* mod_classes.py *)

LoaderKind ==
    {"babric", "bta-babric", "bukkit", "bungeecord", "canvas", "datapack", "fabric",
     "folia", "forge", "iris", "java-agent", "legacy-fabric", "liteloader", "minecraft",
     "modloader", "neoforge", "nilloader", "optifine", "ornithe", "paper", "purpur",
     "quilt", "rift", "spigot", "sponge", "vanilla", "velocity", "waterfall"}

DependencyKind == {"required", "optional", "incompatible", "embedded"}

\* enum lookup by value: Enum(value) raises ValueError for an unknown value
enum_of(kind, value) ==
    IF value \in kind
    THEN [raised |-> FALSE, value |-> value]
    ELSE [raised |-> TRUE, exc |-> "ValueError"]

----------------------------------------------------------------------------
(* result.py *)

Ok(x) == [variant |-> "Ok", inner |-> x]

Err(x) == [variant |-> "Err", inner |-> x]

is_ok(r) == r.variant = "Ok"

is_err(r) == r.variant = "Err"

\* Ok.ok() is the value, Err.ok() is None
ok(r) == IF r.variant = "Ok" THEN r.inner ELSE None

----------------------------------------------------------------------------
(* requests.Response *)

\* Response.__bool__ is Response.ok: no 4xx or 5xx status
response_ok(response) == ~(400 <= response.status_code /\ response.status_code < 600)

\* f"Response(status_code={...!r}, text={...!r})": a formatted string is the
\* sequence of its pieces
_response_str(response) ==
    <<"Response(status_code=", response.status_code, ", text=", response.body, ")">>

----------------------------------------------------------------------------
(* mod_session.py: parsing of catalog entries *)

_to_file_link(data) == [url |-> data.url, filename |-> data.filename]

_to_version_dependency(data) ==
    LET kind == enum_of(DependencyKind, lower(data.dependency_type))
    IN IF kind.raised
       THEN [raised |-> TRUE, exc |-> kind.exc]
       ELSE [raised |-> FALSE,
             value |-> [version_id |-> data.version_id,
                        project_id |-> data.project_id,
                        file_name |-> data.file_name,
                        kind |-> kind.value]]

_to_project_version(data) ==
    LET loaders == [i \in 1..Len(data.loaders) |-> enum_of(LoaderKind, lower(data.loaders[i]))]
        deps == [i \in 1..Len(data.dependencies) |-> _to_version_dependency(data.dependencies[i])]
    IN IF \E i \in 1..Len(loaders) : loaders[i].raised
       THEN [raised |-> TRUE, exc |-> "ValueError"]
       ELSE IF \E i \in 1..Len(deps) : deps[i].raised
       THEN [raised |-> TRUE, exc |-> "ValueError"]
       ELSE [raised |-> FALSE,
             value |-> [name |-> data.name,
                        id_ |-> data.id,
                        project_id |-> data.project_id,
                        version |-> data.version_number,
                        files |-> [i \in 1..Len(data.files) |-> _to_file_link(data.files[i])],
                        game_versions |-> data.game_versions,
                        loaders |-> [i \in 1..Len(loaders) |-> loaders[i].value],
                        published |-> data.date_published,
                        dependencies |-> [i \in 1..Len(deps) |-> deps[i].value]]]

----------------------------------------------------------------------------
(* mod_session.py: LabrinthSession.get_project_version *)

\* the request of _get_project_version, as it appears on the wire
EvQuery(project, game_version, loader) ==
    [ev |-> "query", project |-> project, game_version |-> game_version, loader |-> loader]

\* an insertion that puts the new element before its equals
RECURSIVE insort_before(_, _)
insort_before(s, x) ==
    IF s = <<>> THEN <<x>>
    ELSE IF Head(s).published < x.published
    THEN <<Head(s)>> \o insort_before(Tail(s), x)
    ELSE <<x>> \o s

\* sorted(versions, key=lambda x: x.published): stable, ascending
RECURSIVE insort(_, _)
insort(s, x) ==
    IF s = <<>> THEN <<x>>
    ELSE IF Head(s).published <= x.published
    THEN <<Head(s)>> \o insort(Tail(s), x)
    ELSE <<x>> \o s

RECURSIVE sorted(_)
sorted(s) ==
    IF s = <<>> THEN <<>>
    ELSE insort(sorted(SubSeq(s, 1, Len(s) - 1)), s[Len(s)])

\* sorted(...)[-1]
latest(vs) == sorted(vs)[Len(vs)]

\* game_version.rsplit(".", 1) + ".x"
x_game_version(game_version) ==
    IF game_version = None
    THEN [raised |-> TRUE, exc |-> "AttributeError"]
    ELSE py_add(str_rsplit(game_version), PyStr(<<"", "x">>))

\* the same without the "if not versions" check: [][-1] raises IndexError
after_queries_unchecked(response, queries) ==
    IF ~response_ok(response)
    THEN [raised |-> FALSE, result |-> Err(_response_str(response)), queries |-> queries]
    ELSE LET parsed == [i \in 1..Len(response.body) |-> _to_project_version(response.body[i])]
         IN IF \E i \in 1..Len(parsed) : parsed[i].raised
            THEN [raised |-> TRUE, exc |-> "ValueError", queries |-> queries]
            ELSE LET vs == [i \in 1..Len(parsed) |-> parsed[i].value]
                 IN IF vs = <<>>
                    THEN [raised |-> TRUE, exc |-> "IndexError", queries |-> queries]
                    ELSE [raised |-> FALSE, result |-> Ok(latest(vs)), queries |-> queries]

\* the second "if not response" and everything after it
after_queries(response, queries) ==
    IF ~response_ok(response)
    THEN [raised |-> FALSE, result |-> Err(_response_str(response)), queries |-> queries]
    ELSE LET parsed == [i \in 1..Len(response.body) |-> _to_project_version(response.body[i])]
         IN IF \E i \in 1..Len(parsed) : parsed[i].raised
            THEN [raised |-> TRUE, exc |-> "ValueError", queries |-> queries]
            ELSE LET vs == [i \in 1..Len(parsed) |-> parsed[i].value]
                 IN IF vs = <<>>
                    THEN [raised |-> FALSE,
                          result |-> Err(<<"No versions found matching the given filters.">>),
                          queries |-> queries]
                    ELSE [raised |-> FALSE, result |-> Ok(latest(vs)), queries |-> queries]

\* a fallback that an empty candidate list triggers as well
needs_fallback_empty(response) == ~response_ok(response) \/ response.body = <<>>

\* whether the first response sends the resolver into the fallback
needs_fallback(response) == ~response_ok(response)

\* r1 answers the query with the exact game version, r2 the fallback query
get_project_version(project, game_version, loader, r1, r2) ==
    LET q1 == <<EvQuery(project, game_version, loader)>>
    IN IF needs_fallback(r1)
       THEN LET x == x_game_version(game_version)
            IN IF x.raised
               THEN [raised |-> TRUE, exc |-> x.exc, queries |-> q1]
               ELSE after_queries(r2, q1 \o <<EvQuery(project, x.value.v, loader)>>)
       ELSE after_queries(r1, q1)

----------------------------------------------------------------------------
(* mod_session.py: LabrinthSession.check_enums *)

\* check_enum("v2/tag/loader", LoaderKind): the body of the response is the
\* set of the names the catalog lists
check_enums(response) ==
    IF ~response_ok(response)
    THEN Err(_response_str(response))
    ELSE IF LoaderKind \ response.body # {} /\ response.body \ LoaderKind # {}
    THEN Err(<<"Extra enumerators: ", LoaderKind \ response.body,
               ", Missing enumerators: ", response.body \ LoaderKind>>)
    ELSE IF LoaderKind \ response.body # {}
    THEN Err(<<"Extra enumerators: ", LoaderKind \ response.body>>)
    ELSE IF response.body \ LoaderKind # {}
    THEN Err(<<"Missing enumerators: ", response.body \ LoaderKind>>)
    ELSE Ok(None)

----------------------------------------------------------------------------
(* mod_session.py: LabrinthSession.download_project_version *)

EvFetch(url) == [ev |-> "fetch", url |-> url]

\* Response.text: the body decoded with the response's encoding,
\* errors="replace".  Over the bytes of the model (below 0x80, or 0xFF, which
\* no UTF-8 sequence contains) UTF-8 decodes a byte to itself or to U+FFFD;
\* ISO-8859-1 decodes every byte to the code point of the same number.
response_text(response) ==
    [i \in 1..Len(response.body) |->
        IF response.encoding = "utf-8" /\ response.body[i] >= 128
        THEN 65533
        ELSE response.body[i]]

\* one code point in UTF-8
utf8(cp) ==
    IF cp < 128 THEN <<cp>>
    ELSE IF cp < 2048 THEN <<192 + (cp \div 64), 128 + (cp % 64)>>
    ELSE <<224 + (cp \div 4096), 128 + ((cp \div 64) % 64), 128 + (cp % 64)>>

\* bytes(text, encoding="utf-8")
RECURSIVE bytes_utf8(_)
bytes_utf8(text) ==
    IF text = <<>> THEN <<>> ELSE utf8(Head(text)) \o bytes_utf8(Tail(text))

\* the loop of download_project_version from file i on; responses[i] answers
\* the fetch of version.files[i]
RECURSIVE download_from(_, _, _, _, _)
download_from(version, responses, i, result, fetches) ==
    IF i > Len(version.files)
    THEN [result |-> Ok(result), fetches |-> fetches]
    ELSE LET filelink == version.files[i]
             response == responses[i]
             sent == Append(fetches, EvFetch(filelink.url))
             data == bytes_utf8(response_text(response))
         IN IF ~response_ok(response)
            THEN [result |-> Err(<<filelink, ": ">> \o _response_str(response)),
                  fetches |-> sent]
            ELSE IF data = <<>>
            THEN [result |-> Err(<<filelink, ": Downloaded file is empty.">>),
                  fetches |-> sent]
            ELSE download_from(version, responses, i + 1, Append(result, data), sent)

download_project_version(version, responses) ==
    download_from(version, responses, 1, <<>>, <<>>)

----------------------------------------------------------------------------
(* cli.py *)

\* print(prefix) of _get_version
EvAttempt(name) == [ev |-> "attempt", name |-> name]

\* _overprint(...) of _get_version
EvReport(name, found, text) == [ev |-> "report", name |-> name, found |-> found, text |-> text]

\* print(prefix) of _download
EvDownload(name) == [ev |-> "download", name |-> name]

\* _overprint(...) of _download
EvDownloaded(name, done, text) ==
    [ev |-> "downloaded", name |-> name, done |-> done, text |-> text]

\* Path.write_bytes
EvWrite(filename, data) == [ev |-> "write", filename |-> filename, data |-> data]

\* the arguments Result.inspect calls its function with
inspect(r) == IF is_ok(r) THEN <<r.inner>> ELSE <<>>

\* the arguments Result.inspect_err calls its function with
inspect_err(r) == IF is_err(r) THEN <<r.inner>> ELSE <<>>

_get_version(project, r1, r2) ==
    LET r == get_project_version(project.name, project.game_version, project.loader, r1, r2)
        sent == <<EvAttempt(project.name)>> \o r.queries
    IN IF r.raised
       THEN [raised |-> TRUE, exc |-> r.exc, events |-> sent]
       ELSE [raised |-> FALSE,
             result |-> r.result,
             events |-> sent
                \o [i \in 1..Len(inspect_err(r.result)) |->
                        EvReport(project.name, FALSE, inspect_err(r.result)[i])]
                \o [i \in 1..Len(inspect(r.result)) |->
                        EvReport(project.name, TRUE, <<"Found ", inspect(r.result)[i].name>>)]]

\* write_all of _download: zip(version.files, buffers, strict=True)
write_all(version, buffers) ==
    [i \in 1..Len(version.files) |-> EvWrite(version.files[i].filename, buffers[i])]
    \o <<EvDownloaded(version.name, TRUE, <<"downloaded ", Len(version.files), " file(s)">>)>>

_download(version, responses) ==
    LET r == download_project_version(version, responses)
    IN [result |-> r.result,
        events |-> <<EvDownload(version.name)>> \o r.fetches
            \o [i \in 1..Len(inspect_err(r.result)) |->
                    EvDownloaded(version.name, FALSE,
                                 <<"download error: ">> \o inspect_err(r.result)[i])]
            \o (IF inspect(r.result) = <<>> THEN <<>> ELSE write_all(version, inspect(r.result)[1]))]

\* the files of the target directory after the writes of a list of events
RECURSIVE written(_, _)
written(dir, events) ==
    IF events = <<>> THEN dir
    ELSE LET e == Head(events)
         IN IF e.ev = "write"
            THEN written([f \in DOMAIN dir \cup {e.filename} |->
                             IF f = e.filename THEN e.data ELSE dir[f]],
                         Tail(events))
            ELSE written(dir, Tail(events))

\* Err.expect raises TypeError, Ok.expect returns the value
expect(r) ==
    IF is_ok(r)
    THEN [raised |-> FALSE, value |-> r.inner]
    ELSE [raised |-> TRUE, exc |-> "TypeError"]

\* a pass that drops a failed request and goes on
_get_versions_match_skip(version) == IF is_err(version) THEN "skip" ELSE "append"

\* the match statement of _get_versions on the result of one request
_get_versions_match(version) == IF is_err(version) THEN "return" ELSE "append"

\* "version = ....ok()" and "if version:" of _get_optional_versions
_get_optional_versions_match(version) == IF ok(version) = None THEN "skip" ELSE "append"

\* an extend that puts the new elements in front
list_extend_front(a, b) == b \o a

\* "versions.extend(optional)" of main
list_extend(a, b) == a \o b

\* a download phase that goes on after a failed version
_download_all_check_continue(result) == "continue"

\* "if result.is_err(): return result" of _download_all
_download_all_check(result) == IF is_err(result) THEN "return" ELSE "continue"

----------------------------------------------------------------------------
(* The inputs of a run: configuration, arguments, catalog answers *)

MandatoryNames == <<"sodium", "lithium", "iris", "indium">>

OptionalNames == <<"modmenu", "zoomify", "continuity", "lambdynamiclights">>

GameVersion == <<"1", "21", "5">>

ProjectVersion(name) == [name |-> name, loader |-> "fabric", game_version |-> GameVersion]

RunConfigs ==
    {[game_version |-> GameVersion,
      loader |-> "fabric",
      projects |-> [i \in 1..n |-> ProjectVersion(MandatoryNames[i])],
      optional_projects |-> [i \in 1..m |-> ProjectVersion(OptionalNames[i])]]
        : n \in 0..MaxProjects, m \in 0..MaxOptional}

\* the k-th entry of a catalog answer for a project
RawVersion(project, k, published, nfiles, dependencies) ==
    [name |-> <<project, k>>,
     id |-> <<"id", project, k>>,
     project_id |-> project,
     version_number |-> k,
     files |-> [i \in 1..nfiles |->
                   [url |-> <<"url", project, k, i>>, filename |-> <<project, k, i>>]],
     game_versions |-> <<GameVersion>>,
     loaders |-> <<"fabric">>,
     date_published |-> published,
     dependencies |-> dependencies]

RawDependency(project, kind) ==
    [version_id |-> <<"id", project, 1>>, project_id |-> project,
     file_name |-> None, dependency_type |-> kind]

\* the versions the catalog has of a project in a run: one with a single
\* file and no dependency, one with MaxFiles files and a required dependency
RunVersions(project) ==
    {RawVersion(project, 1, 1, 1, <<>>),
     RawVersion(project, 1, 1, MaxFiles, <<RawDependency("fabric-api", "required")>>)}

\* the answers of the catalog to a version query for a project in a run
RunResponses(project) ==
    {[status_code |-> 404, body |-> <<>>], [status_code |-> 200, body |-> <<>>]}
    \cup {[status_code |-> 200, body |-> <<v>>] : v \in RunVersions(project)}

\* the answers to the fetch of a file in a run
RunFetchResponses ==
    {[status_code |-> 404, body |-> <<>>, encoding |-> "utf-8"],
     [status_code |-> 200, body |-> <<>>, encoding |-> "utf-8"],
     [status_code |-> 200, body |-> <<65>>, encoding |-> "utf-8"]}

----------------------------------------------------------------------------
(* cli.py: main, and LabrinthSession as its context manager *)

EvProbe == [ev |-> "probe"]

EvEnum == [ev |-> "enum"]

\* print of the error of check_enums
EvWarn(text) == [ev |-> "warn", text |-> text]

\* the answers of the catalog to the query of its loader names
EnumResponses ==
    {[status_code |-> 200, body |-> LoaderKind],
     [status_code |-> 200, body |-> (LoaderKind \ {"quilt"}) \cup {"flint"}],
     [status_code |-> 500, body |-> {}]}

EvClose == [ev |-> "close"]

Init ==
    /\ pc = "start"
    /\ session = "none"
    /\ config \in RunConfigs
    /\ args \in [download : BOOLEAN, validate : BOOLEAN]
    /\ idx = 1
    /\ versions = <<>>
    /\ optional = <<>>
    /\ trace = <<>>
    /\ fs = <<>>
    /\ exc = "none"
    /\ ret = None

\* an exception leaves the with block: __exit__ closes the session and the
\* exception ends the run
Raise(e, events) ==
    /\ trace' = trace \o events \o <<EvClose>>
    /\ session' = "closed"
    /\ exc' = e
    /\ pc' = "fatal"

\* the with block ends normally: __exit__ closes the session
Exit(events) ==
    /\ trace' = trace \o events \o <<EvClose>>
    /\ session' = "closed"
    /\ pc' = "done"
    /\ exc' = exc

\* a constructor that does not look at the answer to the probe
LabrinthSession_init_unchecked(response) == "return"

\* "if not response: raise LabrinthError" of LabrinthSession.__init__
LabrinthSession_init(response) == IF ~response_ok(response) THEN "raise" ELSE "return"

\* LabrinthSession(): Session(), the probe, LabrinthError on a bad response;
\* __enter__ only when the constructor returned
Construct ==
    /\ pc = "start"
    /\ \E status \in {200, 503} :
        LET response == [status_code |-> status, body |-> <<>>]
        IN /\ session' = "open"
           /\ trace' = Append(trace, EvProbe)
           /\ ret' = [probe |-> response]
           /\ IF LabrinthSession_init(response) = "raise"
              THEN pc' = "fatal" /\ exc' = "LabrinthError"
              ELSE pc' = "validate" /\ exc' = exc
    /\ UNCHANGED <<config, args, idx, versions, optional, fs>>

\* "if args.validate: session.check_enums().inspect_err(print)": one query,
\* and a warning when the enumerations differ or the query fails
CheckEnums ==
    /\ pc = "validate"
    /\ IF args.validate
       THEN \E response \in EnumResponses :
            \E result \in {check_enums(response)} :
                trace' = trace \o <<EvEnum>>
                    \o [i \in 1..Len(inspect_err(result)) |-> EvWarn(inspect_err(result)[i])]
       ELSE trace' = trace
    /\ pc' = "mandatory"
    /\ UNCHANGED <<session, config, args, idx, versions, optional, fs, exc, ret>>

\* one iteration of the loop of _get_versions
GetVersion ==
    /\ pc = "mandatory"
    /\ idx <= Len(config.projects)
    /\ \E r1, r2 \in RunResponses(config.projects[idx].name) :
       \E version \in {_get_version(config.projects[idx], r1, r2)} :
           IF version.raised
           THEN Raise(version.exc, version.events) /\ UNCHANGED <<idx, versions>>
           ELSE IF _get_versions_match(version.result) = "return"
           THEN Raise(expect(version.result).exc, version.events) /\ UNCHANGED <<idx, versions>>
           ELSE /\ versions' = IF _get_versions_match(version.result) = "append"
                               THEN Append(versions, version.result.inner)
                               ELSE versions
                /\ idx' = idx + 1
                /\ trace' = trace \o version.events
                /\ UNCHANGED <<pc, session, exc>>
    /\ UNCHANGED <<config, args, optional, fs, ret>>

\* _get_versions returns Ok(result); expect unwraps it
GetVersionsReturn ==
    /\ pc = "mandatory"
    /\ idx > Len(config.projects)
    /\ pc' = "optional"
    /\ idx' = 1
    /\ UNCHANGED <<session, config, args, versions, optional, trace, fs, exc, ret>>

\* one iteration of the loop of _get_optional_versions
GetOptionalVersion ==
    /\ pc = "optional"
    /\ idx <= Len(config.optional_projects)
    /\ \E r1, r2 \in RunResponses(config.optional_projects[idx].name) :
       \E version \in {_get_version(config.optional_projects[idx], r1, r2)} :
           IF version.raised
           THEN Raise(version.exc, version.events) /\ UNCHANGED <<idx, optional>>
           ELSE /\ optional' = IF _get_optional_versions_match(version.result) = "append"
                               THEN Append(optional, ok(version.result))
                               ELSE optional
                /\ idx' = idx + 1
                /\ trace' = trace \o version.events
                /\ UNCHANGED <<pc, session, exc>>
    /\ UNCHANGED <<config, args, versions, fs, ret>>

\* a download phase that starts whatever the arguments are
download_requested_always(a) == TRUE

\* "if args.download:" of main
download_requested(a) == a.download

\* a download phase that starts after the with block was left
EnterDownloadOutside ==
    /\ pc' = "download"
    /\ session' = "closed"
    /\ trace' = Append(trace, EvClose)
    /\ UNCHANGED exc

\* _download_all is called inside the with block: the session stays open
EnterDownload ==
    /\ pc' = "download"
    /\ UNCHANGED <<session, trace, exc>>

\* _get_optional_versions returns; "if optional: versions.extend(optional)";
\* "if args.download:" starts _download_all, otherwise the with block ends
GetOptionalVersionsReturn ==
    /\ pc = "optional"
    /\ idx > Len(config.optional_projects)
    /\ versions' = list_extend(versions, optional)
    /\ idx' = 1
    /\ IF download_requested(args)
       THEN EnterDownload
       ELSE Exit(<<>>)
    /\ UNCHANGED <<config, args, optional, fs, ret>>

\* one iteration of the loop of _download_all
Download ==
    /\ pc = "download"
    /\ idx <= Len(versions)
    /\ \E responses \in [1..Len(versions[idx].files) -> RunFetchResponses] :
       \E result \in {_download(versions[idx], responses)} :
           /\ fs' = written(fs, result.events)
           /\ IF _download_all_check(result.result) = "return"
              THEN Raise(expect(result.result).exc, result.events) /\ UNCHANGED idx
              ELSE /\ idx' = idx + 1
                   /\ trace' = trace \o result.events
                   /\ UNCHANGED <<pc, session, exc>>
    /\ UNCHANGED <<config, args, versions, optional, ret>>

\* _download_all returns Ok(None), also for an empty list; the with block ends
DownloadAllReturn ==
    /\ pc = "download"
    /\ idx > Len(versions)
    /\ Exit(<<>>)
    /\ UNCHANGED <<config, args, idx, versions, optional, fs, ret>>

Next ==
    \/ Construct
    \/ CheckEnums
    \/ GetVersion
    \/ GetVersionsReturn
    \/ GetOptionalVersion
    \/ GetOptionalVersionsReturn
    \/ Download
    \/ DownloadAllReturn

Spec == Init /\ [][Next]_vars

TypeOK ==
    /\ pc \in {"start", "validate", "mandatory", "optional", "download", "done", "fatal",
              "resolve", "resolved", "download_one", "downloaded",
              "failures", "returned", "dependencies", "expanded", "result", "applied",
              "parse", "parsed", "load", "loaded"}
    /\ session \in {"none", "open", "closed"}

----------------------------------------------------------------------------
(* get_project_version on its own: one call, every pair of catalog answers *)

\* the bodies of the catalog: up to MaxCandidates entries, the k-th with
\* version number k and any timestamp
RECURSIVE Bodies(_, _)
Bodies(project, n) ==
    IF n = 0 THEN {<<>>}
    ELSE {Append(b, RawVersion(project, n, published, 1, <<>>))
            : b \in Bodies(project, n - 1), published \in 1..MaxPublished}

ResolveResponses(project) ==
    {[status_code |-> 200, body |-> b]
        : b \in UNION {Bodies(project, n) : n \in 0..MaxCandidates}}
    \cup {[status_code |-> status, body |-> <<>>] : status \in {404, 500}}

InitResolve ==
    /\ pc = "resolve"
    /\ session = "open"
    /\ config = None
    /\ args = None
    /\ idx = 1
    /\ versions = <<>>
    /\ optional = <<>>
    /\ trace = <<>>
    /\ fs = <<>>
    /\ exc = "none"
    /\ \E game_version \in {GameVersion, <<"1", "20">>} :
        ret = [call |-> [project |-> "iris", game_version |-> game_version, loader |-> "fabric"]]

\* session.get_project_version(project, game_version, loader)
Resolve ==
    /\ pc = "resolve"
    /\ \E r1, r2 \in ResolveResponses(ret.call.project) :
       \E out \in {get_project_version(ret.call.project, ret.call.game_version,
                                       ret.call.loader, r1, r2)} :
           /\ ret' = [call |-> ret.call, r1 |-> r1, r2 |-> r2, out |-> out]
           /\ trace' = trace \o out.queries
           /\ exc' = IF out.raised THEN out.exc ELSE exc
    /\ pc' = "resolved"
    /\ UNCHANGED <<session, config, args, idx, versions, optional, fs>>

NextResolve == Resolve

SpecResolve == InitResolve /\ [][NextResolve]_vars

----------------------------------------------------------------------------
(* _download on its own: one version, every answer to every fetch *)

Bytes == {65, 255}

RECURSIVE Payloads(_)
Payloads(n) ==
    IF n = 0 THEN {<<>>}
    ELSE Payloads(n - 1) \cup {Append(b, x) : b \in Payloads(n - 1), x \in Bytes}

FetchResponses ==
    {[status_code |-> status, body |-> body, encoding |-> encoding]
        : status \in {200, 404}, body \in Payloads(MaxPayload),
          encoding \in {"utf-8", "ISO-8859-1"}}

InitDownload ==
    /\ pc = "download_one"
    /\ session = "open"
    /\ config = None
    /\ args = None
    /\ idx = 1
    /\ \E nfiles \in 0..MaxFiles :
        versions = <<_to_project_version(RawVersion("iris", 1, 1, nfiles, <<>>)).value>>
    /\ optional = <<>>
    /\ trace = <<>>
    /\ fs = <<>>
    /\ exc = "none"
    /\ ret = None

\* _download(session, version, folder, width)
DownloadVersion ==
    /\ pc = "download_one"
    /\ \E responses \in [1..Len(versions[idx].files) -> FetchResponses] :
       \E out \in {_download(versions[idx], responses)} :
           /\ ret' = [call |-> versions[idx], responses |-> responses, out |-> out]
           /\ trace' = trace \o out.events
           /\ fs' = written(fs, out.events)
    /\ pc' = "downloaded"
    /\ UNCHANGED <<session, config, args, idx, versions, optional, exc>>

NextDownload == DownloadVersion

SpecDownload == InitDownload /\ [][NextDownload]_vars

----------------------------------------------------------------------------
(* Observations on a run *)

\* the events of the trace of one kind
Events(kind) == {i \in 1..Len(trace) : trace[i].ev = kind}

\* a resolution of the request was started
Attempted(name) == \E i \in Events("attempt") : trace[i].name = name

\* the request was resolved to a version
Resolved(name) == \E i \in Events("report") : trace[i].name = name /\ trace[i].found

\* the resolution of the request was started and did not produce a version
Failed(name) == Attempted(name) /\ ~Resolved(name)

Attempts(name) == Cardinality({i \in Events("attempt") : trace[i].name = name})

\* the download of the version was started
DownloadStarted(version) == \E i \in Events("download") : trace[i].name = version.name

\* the download of the version was started and reported an error
DownloadFailed(version) ==
    \E i \in Events("downloaded") : trace[i].name = version.name /\ ~trace[i].done

\* every file of the version is in the target directory
FilesWritten(version) ==
    \A i \in 1..Len(version.files) : version.files[i].filename \in DOMAIN fs

\* the run is over
Terminal == pc \in {"done", "fatal"}

----------------------------------------------------------------------------
(* Batch orchestrator *)

\* C1: when the resolution of a required request fails, no later required
\* request and no optional request is attempted or resolved, nothing is
\* downloaded, and the run has ended with an exception.
C1_MandatoryFailureIsFatal ==
    \A k \in 1..Len(config.projects) :
        Failed(config.projects[k].name) =>
            /\ \A j \in (k + 1)..Len(config.projects) : ~Attempted(config.projects[j].name)
            /\ \A j \in 1..Len(config.optional_projects) :
                    ~Attempted(config.optional_projects[j].name)
            /\ Len(versions) = k - 1
            /\ optional = <<>>
            /\ Events("download") = {} /\ Events("fetch") = {} /\ fs = <<>>
            /\ pc = "fatal" /\ exc # "none"

\* the second of at least two required requests failed with the no-match
\* error after the first was resolved, and optional requests were waiting
C1_Witness ==
    /\ Len(config.projects) >= 2
    /\ Len(config.optional_projects) >= 1
    /\ Resolved(config.projects[1].name)
    /\ Failed(config.projects[2].name)
    /\ \E i \in Events("report") : trace[i].name = config.projects[2].name /\ ~trace[i].found

\* C2: a failure of an optional request never ends the run: the run is
\* never over with an exception after the mandatory pass and before the
\* download phase, and once the optional pass is over every optional
\* request was attempted exactly once and the resolved optional versions
\* are those of the requests that succeeded, in list order.
C2_OptionalFailureNeverAborts ==
    /\ (pc = "fatal" /\ session = "closed" /\ Len(versions) >= Len(config.projects))
            => Events("download") # {}
    /\ (pc \in {"download", "done"}) =>
            /\ \A j \in 1..Len(config.optional_projects) :
                    Attempts(config.optional_projects[j].name) = 1
            /\ \A j \in 1..Len(config.optional_projects) :
                    Resolved(config.optional_projects[j].name)
                        <=> \E i \in 1..Len(optional) :
                                optional[i].project_id = config.optional_projects[j].name
            /\ \A i, j \in 1..Len(optional) :
                    i < j => \E a, b \in 1..Len(config.optional_projects) :
                                /\ a < b
                                /\ config.optional_projects[a].name = optional[i].project_id
                                /\ config.optional_projects[b].name = optional[j].project_id

C5_DependenciesDownloaded ==
    (pc = "done" /\ args.download) =>
        /\ \A i \in 1..Len(versions) : DownloadStarted(versions[i]) /\ FilesWritten(versions[i])
        /\ \A i \in 1..Len(versions) : \A d \in 1..Len(versions[i].dependencies) :
                versions[i].dependencies[d].kind = "required" =>
                    /\ \E q \in Events("query") :
                            trace[q].project = versions[i].dependencies[d].project_id
                    /\ \E f \in Events("fetch") :
                            trace[f].url[2] = versions[i].dependencies[d].project_id
        /\ \A e \in Events("download") :
                \/ \E i \in 1..Len(versions) : versions[i].name = trace[e].name
                \/ \E i \in 1..Len(versions) : \E d \in 1..Len(versions[i].dependencies) :
                        /\ versions[i].dependencies[d].kind = "required"
                        /\ versions[i].dependencies[d].project_id = trace[e].name[1]

\* C6: no run is over with the session opened and not closed.
C6_SessionClosedOnEveryExit == Terminal => session # "open"

----------------------------------------------------------------------------
(* Download of one version *)

\* every fetch of the call was answered with a successful, non-empty body
AllFetched ==
    \A i \in 1..Len(ret.call.files) :
        response_ok(ret.responses[i]) /\ ret.responses[i].body # <<>>

\* the write events of the trace, in order
RECURSIVE Writes(_)
Writes(events) ==
    IF events = <<>> THEN <<>>
    ELSE IF Head(events).ev = "write"
    THEN <<Head(events)>> \o Writes(Tail(events))
    ELSE Writes(Tail(events))

\* no file of the version is written unless every one of its fetches was
\* successful and non-empty, and a failed download is reported as an error
C4_NothingWrittenUnlessAllFetched ==
    (pc = "downloaded" /\ ~AllFetched) =>
        /\ Writes(trace) = <<>>
        /\ fs = <<>>
        /\ is_err(ret.out.result)
        /\ DownloadFailed(ret.call)

\* C4: a download writes nothing and reports an error unless every fetch of
\* the version was successful and non-empty; when all were, it writes one
\* file per FileLink, the i-th fetched body under the i-th filename.
C4_AllOrNothingPayloads ==
    /\ C4_NothingWrittenUnlessAllFetched
    /\ (pc = "downloaded" /\ AllFetched) =>
            /\ Len(Writes(trace)) = Len(ret.call.files)
            /\ \A i \in 1..Len(ret.call.files) :
                    /\ Writes(trace)[i].filename = ret.call.files[i].filename
                    /\ Writes(trace)[i].data = ret.responses[i].body
                    /\ fs[ret.call.files[i].filename] = ret.responses[i].body

----------------------------------------------------------------------------
(* Version resolver *)

\* the game version with its last component replaced by the wildcard
Widened(game_version) == SubSeq(game_version, 1, Len(game_version) - 1) \o <<"x">>

\* C7: after a non-success answer to the exact query the resolver has
\* issued exactly one more query, for the same project and loader with the
\* widened game version, and its result is that of the second answer.
C7_FallbackRetriesOnce ==
    (pc = "resolved" /\ ~response_ok(ret.r1)) =>
        /\ Len(trace) = 2
        /\ trace[1] = EvQuery(ret.call.project, ret.call.game_version, ret.call.loader)
        /\ trace[2] = EvQuery(ret.call.project, Widened(ret.call.game_version),
                              ret.call.loader)
        /\ ~ret.out.raised
        /\ (response_ok(ret.r2) /\ ret.r2.body # <<>>) => is_ok(ret.out.result)
        /\ ~response_ok(ret.r2) => is_err(ret.out.result)

\* C8: a successful answer with no candidates does not send the resolver
\* into the fallback: the call ends without an exception having issued one
\* query, the exact one.
C8_NoFallbackOnEmpty ==
    (pc = "resolved" /\ response_ok(ret.r1) /\ ret.r1.body = <<>>) =>
        /\ ~ret.out.raised
        /\ trace = <<EvQuery(ret.call.project, ret.call.game_version, ret.call.loader)>>
        /\ \A i \in 1..Len(trace) : trace[i].game_version # Widened(ret.call.game_version)

\* a call was answered successfully with no candidates
C8_Witness ==
    /\ pc = "resolved"
    /\ response_ok(ret.r1) /\ ret.r1.body = <<>>
    /\ Len(trace) = 1

\* the largest timestamp of a body
NewestTimestamp(body) ==
    CHOOSE t \in {body[i].date_published : i \in 1..Len(body)} :
        \A i \in 1..Len(body) : body[i].date_published <= t

\* the last position of a body with the largest timestamp
LastNewest(body) ==
    CHOOSE k \in 1..Len(body) :
        /\ body[k].date_published = NewestTimestamp(body)
        /\ \A j \in (k + 1)..Len(body) : body[j].date_published < NewestTimestamp(body)

\* C9: a non-empty candidate list resolves to Ok with the candidate of the
\* largest timestamp, the last of them in the order of the answer.
C9_NewestLastWins ==
    (pc = "resolved" /\ response_ok(ret.r1) /\ ret.r1.body # <<>>) =>
        /\ ~ret.out.raised
        /\ is_ok(ret.out.result)
        /\ ret.out.result.inner.published = NewestTimestamp(ret.r1.body)
        /\ ret.out.result.inner
                = _to_project_version(ret.r1.body[LastNewest(ret.r1.body)]).value

\* three candidates, the first two tied on the largest timestamp
C9_Witness ==
    /\ pc = "resolved"
    /\ response_ok(ret.r1)
    /\ Len(ret.r1.body) = 3
    /\ ret.r1.body[1].date_published = ret.r1.body[2].date_published
    /\ ret.r1.body[3].date_published < ret.r1.body[2].date_published
    /\ is_ok(ret.out.result)
    /\ ret.out.result.inner.version = 2

\* the answer the resolver goes on with: the second if a second query was
\* issued, the first otherwise
FinalResponse == IF Len(trace) = 2 THEN ret.r2 ELSE ret.r1

C11_BothFailPropagatesErr ==
    (pc = "resolved" /\ ~response_ok(ret.r1) /\ ~response_ok(ret.r2)) =>
        /\ ~ret.out.raised
        /\ ret.out.result = Err(_response_str(ret.r2))

----------------------------------------------------------------------------
(* Failures of the transport, of parsing and of the file system *)

\* the outcome of Session.get is a response, or an exception of the
\* transport that no caller catches
raises(outcome) == "raises" \in DOMAIN outcome

ConnectionFailure == [raises |-> "ConnectionError"]

\* get_project_version when Session.get may raise: a1 is the outcome of the
\* query with the exact game version, a2 of the fallback query
get_project_version_on(project, game_version, loader, a1, a2) ==
    LET q1 == <<EvQuery(project, game_version, loader)>>
        x == x_game_version(game_version)
    IN IF raises(a1)
       THEN [raised |-> TRUE, exc |-> a1.raises, queries |-> q1]
       ELSE IF needs_fallback(a1) /\ ~x.raised /\ raises(a2)
       THEN [raised |-> TRUE, exc |-> a2.raises,
             queries |-> q1 \o <<EvQuery(project, x.value.v, loader)>>]
       ELSE get_project_version(project, game_version, loader, a1, a2)

\* the first file of the version whose fetch raises, 0 when none does
first_raising(version, outcomes) ==
    IF \E i \in 1..Len(version.files) : raises(outcomes[i])
    THEN CHOOSE i \in 1..Len(version.files) :
            /\ raises(outcomes[i])
            /\ \A j \in 1..(i - 1) : ~raises(outcomes[j])
    ELSE 0

\* download_project_version when Session.get may raise: the loop runs as
\* before up to the file whose fetch raises
download_project_version_on(version, outcomes) ==
    LET k == first_raising(version, outcomes)
        before == download_project_version(
                      [version EXCEPT !.files = SubSeq(version.files, 1, k - 1)], outcomes)
    IN IF k = 0
       THEN [raised |-> FALSE] @@ download_project_version(version, outcomes)
       ELSE IF is_err(before.result)
       THEN [raised |-> FALSE] @@ before
       ELSE [raised |-> TRUE, exc |-> outcomes[k].raises,
             fetches |-> Append(before.fetches, EvFetch(version.files[k].url))]

\* _download when Session.get may raise and Path.write_bytes raises OSError
\* on the file number failing (0: every write succeeds)
_download_on(version, outcomes, failing) ==
    LET r == download_project_version_on(version, outcomes)
    IN IF r.raised
       THEN [raised |-> TRUE, exc |-> r.exc,
             events |-> <<EvDownload(version.name)>> \o r.fetches]
       ELSE IF is_ok(r.result) /\ failing \in 1..Len(version.files)
       THEN [raised |-> TRUE, exc |-> "OSError",
             events |-> <<EvDownload(version.name)>> \o r.fetches
                \o SubSeq(write_all(version, r.result.inner), 1, failing - 1)]
       ELSE [raised |-> FALSE] @@ _download(version, outcomes)

\* the outcomes of a version query: a status that is not a success, no
\* candidate, a candidate, a candidate with a loader or a dependency kind
\* that the enumerations do not have, a failure of the connection
QueryOutcomes(project) ==
    {[status_code |-> 404, body |-> <<>>],
     [status_code |-> 200, body |-> <<>>],
     [status_code |-> 200, body |-> <<RawVersion(project, 1, 1, 1, <<>>)>>],
     [status_code |-> 200,
      body |-> <<[RawVersion(project, 1, 1, 1, <<>>) EXCEPT !.loaders = <<"fabric", "flint">>]>>],
     [status_code |-> 200,
      body |-> <<RawVersion(project, 1, 1, 1, <<RawDependency("fabric-api", "bundled")>>)>>],
     ConnectionFailure}

FetchOutcomes == RunFetchResponses \cup {ConnectionFailure}

InitFailures ==
    /\ pc = "failures"
    /\ session = "open"
    /\ config = None
    /\ args = None
    /\ idx = 1
    /\ \E nfiles \in 0..MaxFiles :
        versions = <<_to_project_version(RawVersion("iris", 1, 1, nfiles, <<>>)).value>>
    /\ optional = <<>>
    /\ trace = <<>>
    /\ fs = <<>>
    /\ exc = "none"
    /\ ret = None

\* session.get_project_version(name, game_version, loader)
ResolveOn ==
    /\ pc = "failures"
    /\ \E a1, a2 \in QueryOutcomes("iris") :
       \E out \in {get_project_version_on("iris", GameVersion, "fabric", a1, a2)} :
           /\ ret' = [fn |-> "get_project_version", a1 |-> a1, a2 |-> a2, out |-> out]
           /\ trace' = trace \o out.queries
    /\ pc' = "returned"
    /\ UNCHANGED <<session, config, args, idx, versions, optional, fs, exc>>

\* session.download_project_version(version)
FetchOn ==
    /\ pc = "failures"
    /\ \E outcomes \in [1..Len(versions[idx].files) -> FetchOutcomes] :
       \E out \in {download_project_version_on(versions[idx], outcomes)} :
           /\ ret' = [fn |-> "download_project_version", outcomes |-> outcomes, out |-> out]
           /\ trace' = trace \o out.fetches
    /\ pc' = "returned"
    /\ UNCHANGED <<session, config, args, idx, versions, optional, fs, exc>>

\* _download(session, version, folder, width)
DownloadOn ==
    /\ pc = "failures"
    /\ \E outcomes \in [1..Len(versions[idx].files) -> FetchOutcomes] :
       \E failing \in 0..Len(versions[idx].files) :
       \E out \in {_download_on(versions[idx], outcomes, failing)} :
           /\ ret' = [fn |-> "_download", outcomes |-> outcomes, failing |-> failing,
                      out |-> out]
           /\ trace' = trace \o out.events
           /\ fs' = written(fs, out.events)
    /\ pc' = "returned"
    /\ UNCHANGED <<session, config, args, idx, versions, optional, exc>>

NextFailures == ResolveOn \/ FetchOn \/ DownloadOn

SpecFailures == InitFailures /\ [][NextFailures]_vars

\* C12: whatever the outcome of a query, of a fetch or of a write, the
\* resolver, the downloader and the download step of a version return a
\* Result of one of the two variants and raise nothing.
C12_FailuresAreReturned ==
    pc = "returned" =>
        /\ ~ret.out.raised
        /\ ret.out.result.variant \in {"Ok", "Err"}

----------------------------------------------------------------------------
(* cli.py: _get_version_dependencies on its own *)

\* obj.name: AttributeError when the object has no attribute of that name
py_getattr(obj, name) ==
    IF name \in DOMAIN obj
    THEN [raised |-> FALSE, value |-> obj[name]]
    ELSE [raised |-> TRUE, exc |-> "AttributeError"]

\* a filter that lets every kind but INCOMPATIBLE through
is_not_incompatible(x) == x.kind # "incompatible"

\* lambda x: x.kind == mc.DependencyKind.REQUIRED
is_required(x) == x.kind = "required"

\* no filter at all
all_dependencies(version) == version.dependencies

\* depends = list(filter(..., version.dependencies))
required_dependencies(version) == SelectSeq(version.dependencies, is_required)

\* the call of the resolver the loop makes for a dependency
DepCall(project_id, game_version, loader) ==
    [project_id |-> project_id, game_version |-> game_version, loader |-> loader]

\* the loop of _get_version_dependencies from the i-th entry of depends on.
\* catalog[p] answers every query for project p; visited are the entries the
\* loop has taken up, calls the calls of the resolver it has made.
RECURSIVE dependencies_from(_, _, _, _, _, _)
dependencies_from(version, depends, catalog, i, result, log) ==
    IF i > Len(depends)
    THEN [raised |-> FALSE, result |-> Ok(result)] @@ log
    ELSE LET each == depends[i]
             taken == [log EXCEPT !.visited = Append(@, each)]
             game_version == py_getattr(version, "game_version")
             loader == py_getattr(version, "loader")
         IN IF game_version.raised
            THEN [raised |-> TRUE, exc |-> game_version.exc] @@ taken
            ELSE IF loader.raised
            THEN [raised |-> TRUE, exc |-> loader.exc] @@ taken
            ELSE LET dep_ver == get_project_version(each.project_id, game_version.value,
                                                    loader.value, catalog[each.project_id],
                                                    catalog[each.project_id])
                     called == [taken EXCEPT
                                  !.calls = Append(@, DepCall(each.project_id,
                                                              game_version.value,
                                                              loader.value)),
                                  !.queries = @ \o dep_ver.queries]
                 IN IF dep_ver.raised
                    THEN [raised |-> TRUE, exc |-> dep_ver.exc] @@ called
                    ELSE IF is_err(dep_ver.result)
                    THEN [raised |-> FALSE, result |-> Err(dep_ver.result.inner)] @@ called
                    ELSE dependencies_from(version, depends, catalog, i + 1,
                                           Append(result, dep_ver.result.inner), called)

_get_version_dependencies(version, catalog) ==
    LET depends == required_dependencies(version)
        log == [visited |-> <<>>, calls |-> <<>>, queries |-> <<>>]
    IN IF depends = <<>>
       THEN [raised |-> FALSE, result |-> Ok(<<>>)] @@ log
       ELSE dependencies_from(version, depends, catalog, 1, <<>>, log)

MaxDependencies == 3

DependencyNames == <<"fabric-api", "cloth-config", "yacl", "architectury">>

\* the dependency lists of the parent version: the i-th entry names the
\* i-th project, with any kind
DependencyLists ==
    UNION {{[i \in 1..n |-> RawDependency(DependencyNames[i], kinds[i])]
                : kinds \in [1..n -> DependencyKind]} : n \in 0..MaxDependencies}

DepAnswers == {"failing", "empty", "found"}

\* what the catalog answers to a query for a dependency: a failing status,
\* no candidate, or a version that has a required dependency of its own
DepResponse(project, answer) ==
    CASE answer = "failing" -> [status_code |-> 404, body |-> <<>>]
      [] answer = "empty" -> [status_code |-> 200, body |-> <<>>]
      [] answer = "found" ->
            [status_code |-> 200,
             body |-> <<RawVersion(project, 1, 1, 1,
                                   <<RawDependency("fabric-language-kotlin", "required")>>)>>]

InitDeps ==
    /\ pc = "dependencies"
    /\ session = "open"
    /\ config = None
    /\ args = None
    /\ idx = 1
    /\ \E dependencies \in DependencyLists :
        versions = <<_to_project_version(RawVersion("iris", 1, 1, 1, dependencies)).value>>
    /\ optional = <<>>
    /\ trace = <<>>
    /\ fs = <<>>
    /\ exc = "none"
    /\ ret = None

\* _get_version_dependencies(session, version) for a version that was
\* resolved for GameVersion and fabric
ResolveDependencies ==
    /\ pc = "dependencies"
    /\ \E answers \in [{versions[idx].dependencies[i].project_id
                            : i \in 1..Len(versions[idx].dependencies)} -> DepAnswers] :
       \E out \in {_get_version_dependencies(
                       versions[idx],
                       [p \in DOMAIN answers |-> DepResponse(p, answers[p])])} :
           /\ ret' = [call |-> [version |-> versions[idx],
                                game_version |-> GameVersion,
                                loader |-> "fabric"],
                      answers |-> answers,
                      out |-> out]
           /\ trace' = trace \o out.queries
    /\ pc' = "expanded"
    /\ UNCHANGED <<session, config, args, idx, versions, optional, fs, exc>>

NextDeps == ResolveDependencies

SpecDeps == InitDeps /\ [][NextDeps]_vars

\* the REQUIRED entries of the version the call was made for
Required == SelectSeq(ret.call.version.dependencies, LAMBDA x : x.kind = "required")

\* the k-th REQUIRED entry is the first whose resolution the catalog fails
FirstFailing(k) ==
    /\ k \in 1..Len(Required)
    /\ ret.answers[Required[k].project_id] # "found"
    /\ \A j \in 1..(k - 1) : ret.answers[Required[j].project_id] = "found"

\* the version the catalog has of a dependency
CatalogVersion(project) == _to_project_version(DepResponse(project, "found").body[1]).value

\* C13: when the k-th REQUIRED dependency is the first whose resolution
\* fails, exactly k calls of the resolver were made, for the first k
\* REQUIRED entries in list order, and the call returns the Err of the k-th
\* with no list.
C13_DependenciesShortCircuit ==
    pc = "expanded" =>
        \A k \in 1..Len(Required) :
            FirstFailing(k) =>
                /\ ~ret.out.raised
                /\ Len(ret.out.calls) = k
                /\ \A j \in 1..k : ret.out.calls[j].project_id = Required[j].project_id
                /\ is_err(ret.out.result)
                /\ ret.answers[Required[k].project_id] = "empty" =>
                        ret.out.result = Err(<<"No versions found matching the given filters.">>)

\* C14: when the catalog has a version of every REQUIRED dependency, the
\* resolver is called once per REQUIRED entry, in order, with the entry's
\* project id and the game version and loader the parent was resolved for,
\* and the call returns Ok with the resolved versions in the same order.
C14_DependenciesUseParentContext ==
    (pc = "expanded" /\ \A j \in 1..Len(Required) : ret.answers[Required[j].project_id] = "found")
        =>
        /\ ~ret.out.raised
        /\ ret.out.calls = [j \in 1..Len(Required) |->
                               DepCall(Required[j].project_id, ret.call.game_version,
                                       ret.call.loader)]
        /\ ret.out.result = Ok([j \in 1..Len(Required) |->
                                   CatalogVersion(Required[j].project_id)])

\* C15: for a version with no REQUIRED dependency the call returns Ok with
\* the empty list and sends nothing to the catalog.
C15_NoRequiredNoTransport ==
    (pc = "expanded" /\ Required = <<>>) =>
        /\ ~ret.out.raised
        /\ ret.out.result = Ok(<<>>)
        /\ ret.out.calls = <<>>
        /\ ret.out.queries = <<>>
        /\ trace = <<>>

\* a version with two dependencies of different kinds, none REQUIRED
C15_Witness ==
    /\ pc = "expanded"
    /\ Required = <<>>
    /\ Len(ret.call.version.dependencies) >= 2
    /\ ret.call.version.dependencies[1].kind # ret.call.version.dependencies[2].kind
    /\ ret.out.result = Ok(<<>>)

\* C16: the loop takes up, calls the resolver for and queries the catalog
\* for REQUIRED entries of the version's own dependency list only: never an
\* entry of another kind, never a dependency of a dependency.
C16_OneLevelRequiredOnly ==
    pc = "expanded" =>
        /\ \A i \in 1..Len(ret.out.visited) :
                /\ ret.out.visited[i].kind = "required"
                /\ \E j \in 1..Len(ret.call.version.dependencies) :
                        ret.call.version.dependencies[j] = ret.out.visited[i]
        /\ \A i \in 1..Len(ret.out.calls) :
                \E j \in 1..Len(Required) : Required[j].project_id = ret.out.calls[i].project_id
        /\ \A i \in 1..Len(ret.out.queries) :
                \E j \in 1..Len(Required) : Required[j].project_id = ret.out.queries[i].project
        /\ \A i \in 1..Len(trace) :
                \E j \in 1..Len(Required) : Required[j].project_id = trace[i].project

\* the loop took up a REQUIRED entry that stands behind an entry of
\* another kind, for which the catalog has a version with a dependency
C16_Witness ==
    /\ pc = "expanded"
    /\ Len(ret.call.version.dependencies) >= 2
    /\ ret.call.version.dependencies[1].kind = "optional"
    /\ ret.call.version.dependencies[2].kind = "required"
    /\ ret.answers[ret.call.version.dependencies[2].project_id] = "found"
    /\ ret.out.visited = <<ret.call.version.dependencies[2]>>

----------------------------------------------------------------------------
(* result.py: the methods of Ok and Err, one call at a time *)

PyInt(n) == [t |-> "int", n |-> n]

PyBool(b) == [t |-> "bool", b |-> b]

\* the functions handed to the methods: O -> U, O -> bool, E -> U, E -> bool
\* and one that only observes its argument
call(function, x) ==
    CASE function = "succ" -> PyInt(x.n + 1)
      [] function = "zero" -> PyInt(0)
      [] function = "is_zero" -> PyBool(x.n = 0)
      [] function = "always" -> PyBool(TRUE)
      [] function = "describe" -> PyStr(<<"failed: ">> \o x.v)
      [] function = "redact" -> PyStr(<<"error">>)
      [] function = "is_timeout" -> PyBool(x.v = <<"timeout">>)
      [] function = "log" -> None

\* what a method does: it returns a value or raises, after calling the
\* function it was given with the listed arguments
Returns(value, calls) == [raised |-> FALSE, value |-> value, calls |-> calls]

Raises(e) == [raised |-> TRUE, exc |-> e, calls |-> <<>>]
\* class Ok
Ok_is_ok(self) == Returns(PyBool(TRUE), <<>>)

Ok_is_ok_and(self, function) == Returns(call(function, self.inner), <<self.inner>>)

Ok_is_err(self) == Returns(PyBool(FALSE), <<>>)

Ok_is_err_and(self, function) == Returns(PyBool(FALSE), <<>>)

\* an inspect that returns what the function returned
Ok_inspect_result(self, function) == Returns(call(function, self.inner), <<self.inner>>)

Ok_inspect(self, function) == Returns(self, <<self.inner>>)

Ok_inspect_err(self, function) == Returns(self, <<>>)

Ok_ok(self) == Returns(self.inner, <<>>)

Ok_err(self) == Returns(None, <<>>)

Ok_map(self, function) == Returns(call(function, self.inner), <<self.inner>>)

Ok_map_or(self, default, function) == Returns(call(function, self.inner), <<self.inner>>)

Ok_map_err(self, function) == Returns(self, <<>>)

Ok_expect(self) == Returns(self.inner, <<>>)

Ok_unwrap(self) == Returns(self.inner, <<>>)

Ok_expect_err(self) == Raises("TypeError")

Ok_unwrap_err(self) == Raises("TypeError")

\* class Err
Err_is_ok(self) == Returns(PyBool(FALSE), <<>>)

\* an is_ok_and that answers as Err.is_err does
Err_is_ok_and_true(self, function) == Returns(PyBool(TRUE), <<>>)

Err_is_ok_and(self, function) == Returns(PyBool(FALSE), <<>>)

Err_is_err(self) == Returns(PyBool(TRUE), <<>>)

Err_is_err_and(self, function) == Returns(call(function, self.inner), <<self.inner>>)

Err_inspect(self, function) == Returns(self, <<>>)

Err_inspect_err(self, function) == Returns(self, <<self.inner>>)

Err_ok(self) == Returns(None, <<>>)

Err_err(self) == Returns(self.inner, <<>>)

Err_map(self, function) == Returns(self, <<>>)

Err_map_or(self, default, function) == Returns(default, <<>>)

Err_map_err(self, function) == Returns(call(function, self.inner), <<self.inner>>)

Err_expect(self) == Raises("TypeError")

Err_unwrap(self) == Raises("TypeError")

Err_expect_err(self) == Returns(self.inner, <<>>)

Err_unwrap_err(self) == Returns(self.inner, <<>>)

\* self.method(...): the method of the class of self
method_call(self, method, default, function) ==
    IF self.variant = "Ok"
    THEN CASE method = "is_ok" -> Ok_is_ok(self)
           [] method = "is_ok_and" -> Ok_is_ok_and(self, function)
           [] method = "is_err" -> Ok_is_err(self)
           [] method = "is_err_and" -> Ok_is_err_and(self, function)
           [] method = "inspect" -> Ok_inspect(self, function)
           [] method = "inspect_err" -> Ok_inspect_err(self, function)
           [] method = "ok" -> Ok_ok(self)
           [] method = "err" -> Ok_err(self)
           [] method = "map" -> Ok_map(self, function)
           [] method = "map_or" -> Ok_map_or(self, default, function)
           [] method = "map_err" -> Ok_map_err(self, function)
           [] method = "expect" -> Ok_expect(self)
           [] method = "unwrap" -> Ok_unwrap(self)
           [] method = "expect_err" -> Ok_expect_err(self)
           [] method = "unwrap_err" -> Ok_unwrap_err(self)
    ELSE CASE method = "is_ok" -> Err_is_ok(self)
           [] method = "is_ok_and" -> Err_is_ok_and(self, function)
           [] method = "is_err" -> Err_is_err(self)
           [] method = "is_err_and" -> Err_is_err_and(self, function)
           [] method = "inspect" -> Err_inspect(self, function)
           [] method = "inspect_err" -> Err_inspect_err(self, function)
           [] method = "ok" -> Err_ok(self)
           [] method = "err" -> Err_err(self)
           [] method = "map" -> Err_map(self, function)
           [] method = "map_or" -> Err_map_or(self, default, function)
           [] method = "map_err" -> Err_map_err(self, function)
           [] method = "expect" -> Err_expect(self)
           [] method = "unwrap" -> Err_unwrap(self)
           [] method = "expect_err" -> Err_expect_err(self)
           [] method = "unwrap_err" -> Err_unwrap_err(self)

MaxValue == 2

ErrorTexts == <<"timeout", "not found", "forbidden", "gone">>

\* the results the methods are called on
Results ==
    {Ok(PyInt(n)) : n \in 0..MaxValue} \cup {Err(PyStr(<<ErrorTexts[k]>>)) : k \in 1..MaxValue}

Methods ==
    {"is_ok", "is_ok_and", "is_err", "is_err_and", "inspect", "inspect_err", "ok", "err",
     "map", "map_or", "map_err", "expect", "unwrap", "expect_err", "unwrap_err"}

\* the functions a method can be given, by the type of its parameter
Functions(method) ==
    CASE method \in {"map", "map_or"} -> {"succ", "zero"}
      [] method = "map_err" -> {"describe", "redact"}
      [] method = "is_ok_and" -> {"is_zero", "always"}
      [] method = "is_err_and" -> {"is_timeout", "always"}
      [] method \in {"inspect", "inspect_err"} -> {"log"}
      [] OTHER -> {"none"}

\* the defaults map_or can be given
Defaults(method) == IF method = "map_or" THEN {PyInt(n) : n \in 0..MaxValue} ELSE {None}

InitResult ==
    /\ pc = "result"
    /\ session = "none"
    /\ config = None
    /\ args = None
    /\ idx = 1
    /\ versions = <<>>
    /\ optional = <<>>
    /\ trace = <<>>
    /\ fs = <<>>
    /\ exc = "none"
    /\ ret = None

\* self.method(default, function) for one result and one method
CallMethod(method) ==
    /\ pc = "result"
    /\ \E self \in Results, function \in Functions(method), default \in Defaults(method) :
       \E out \in {method_call(self, method, default, function)} :
           ret' = [self |-> self, method |-> method, function |-> function,
                   default |-> default, out |-> out]
    /\ pc' = "applied"
    /\ UNCHANGED <<session, config, args, idx, versions, optional, trace, fs, exc>>

NextResult == \E method \in Methods : CallMethod(method)

SpecResult == InitResult /\ [][NextResult]_vars

\* the value is a Result of one of the two variants
IsResult(value) == "variant" \in DOMAIN value /\ value.variant \in {"Ok", "Err"}

\* C17: map(f) turns Ok(v) into Ok(f(v)) and returns Err(e) as it is
\* without calling f; map_err(f) turns Err(e) into Err(f(e)) and returns
\* Ok(v) as it is; what map and map_err return is always Ok or Err.
C17_MapKeepsVariant ==
    (pc = "applied" /\ ret.method \in {"map", "map_err"}) =>
        /\ ~ret.out.raised
        /\ IsResult(ret.out.value)
        /\ (ret.method = "map" /\ is_ok(ret.self)) =>
                /\ ret.out.value = Ok(call(ret.function, ret.self.inner))
                /\ ret.out.calls = <<ret.self.inner>>
        /\ (ret.method = "map" /\ is_err(ret.self)) =>
                ret.out.value = ret.self /\ ret.out.calls = <<>>
        /\ (ret.method = "map_err" /\ is_err(ret.self)) =>
                /\ ret.out.value = Err(call(ret.function, ret.self.inner))
                /\ ret.out.calls = <<ret.self.inner>>
        /\ (ret.method = "map_err" /\ is_ok(ret.self)) =>
                ret.out.value = ret.self /\ ret.out.calls = <<>>

\* C18: inspect and inspect_err return the result they were called on;
\* inspect calls the function once with the payload of an Ok and not at all
\* for an Err, inspect_err once with the payload of an Err and not at all
\* for an Ok.
C18_InspectReturnsSelf ==
    (pc = "applied" /\ ret.method \in {"inspect", "inspect_err"}) =>
        /\ ~ret.out.raised
        /\ ret.out.value = ret.self
        /\ ret.out.calls =
              IF (ret.method = "inspect") = is_ok(ret.self) THEN <<ret.self.inner>> ELSE <<>>

\* inspect_err was called on an Err and the function saw its payload
C18_Witness ==
    /\ pc = "applied"
    /\ ret.method = "inspect_err"
    /\ is_err(ret.self)
    /\ ret.out.calls = <<ret.self.inner>>
    /\ ret.out.value = ret.self

\* what is left of the error e after a method was called on Err(e): the
\* call raised, or it returned an Err, the error mapped by the function, or
\* the answer False
ErrorKept ==
    \/ ret.out.raised
    \/ IsResult(ret.out.value) /\ is_err(ret.out.value)
    \/ ret.method = "map_err" /\ ret.out.value = call(ret.function, ret.self.inner)
    \/ ret.method = "is_ok_and" /\ ret.out.value = PyBool(FALSE)

----------------------------------------------------------------------------
(* Ordering of a run *)

\* the events of one kind, in the order of the trace
EventSeq(kind) == SelectSeq(trace, LAMBDA e : e.ev = kind)

\* the names of the configured requests: the required ones in list order,
\* then the optional ones in list order
Configured ==
    [i \in 1..Len(config.projects) |-> config.projects[i].name]
    \o [i \in 1..Len(config.optional_projects) |-> config.optional_projects[i].name]

\* the request whose resolution is under way at position i of the trace:
\* the one of the last attempt before i
Current(i) ==
    LET before == {a \in Events("attempt") : a < i}
    IN IF before = {} THEN None
       ELSE PyStr(trace[CHOOSE a \in before : \A b \in before : b <= a].name)

\* C20: the requests are attempted in the order of the configuration, the
\* required ones before the optional ones; every query and every report
\* belongs to the request attempted last, so no query of a request comes
\* before the end of the one before it; the versions handed to the download
\* phase are those of the resolved requests in that same order, and they
\* are downloaded in that order.
C20_ConfigurationOrder ==
    /\ Len(EventSeq("attempt")) <= Len(Configured)
    /\ \A i \in 1..Len(EventSeq("attempt")) : EventSeq("attempt")[i].name = Configured[i]
    /\ \A i \in Events("query") : Current(i) = PyStr(trace[i].project)
    /\ \A i \in Events("report") : Current(i) = PyStr(trace[i].name)
    /\ (pc \in {"download", "done"} \/ Events("download") # {}) =>
            /\ [i \in 1..Len(versions) |-> versions[i].project_id]
                    = SelectSeq(Configured, Resolved)
            /\ Len(EventSeq("download")) <= Len(versions)
            /\ \A i \in 1..Len(EventSeq("download")) :
                    EventSeq("download")[i].name = versions[i].name

\* a run with two required and two optional requests, the first optional
\* one without a version, that has downloaded the three versions
C20_Witness ==
    /\ pc = "done"
    /\ Len(config.projects) = 2
    /\ Len(config.optional_projects) = 2
    /\ Failed(config.optional_projects[1].name)
    /\ Resolved(config.optional_projects[2].name)
    /\ Len(versions) = 3
    /\ Len(EventSeq("download")) = 3

----------------------------------------------------------------------------
(* Reporting, session and phases of a run *)

\* C21: every attempt has exactly one report of its own, which comes after
\* the attempt and its queries and before any later attempt and before the
\* end of the run.
C21_EveryAttemptReported ==
    \A a \in Events("attempt") :
        LET reports == {i \in Events("report") : trace[i].name = trace[a].name}
        IN /\ Cardinality(reports) = 1
           /\ \A i \in reports :
                /\ a < i
                /\ \A q \in Events("query") : trace[q].project = trace[a].name => (a < q /\ q < i)
                /\ \A b \in Events("attempt") \cup Events("close") : a < b => i < b

\* C22: the construction of the session sends one probe, the first thing
\* of the run and the only probe; when the answer to it is not a success
\* the run ends there with LabrinthError, with no query, no fetch and no
\* other event.
C22_ProbeFirstAndFatal ==
    /\ pc = "start" => trace = <<>>
    /\ pc # "start" =>
        /\ Events("probe") = {1}
        /\ ~response_ok(ret.probe) =>
            /\ pc = "fatal"
            /\ exc = "LabrinthError"
            /\ trace = <<EvProbe>>
            /\ versions = <<>> /\ optional = <<>> /\ fs = <<>>

\* the probe of a run that has requests and a download directory was
\* answered with 503
C22_Witness ==
    /\ pc = "fatal"
    /\ exc = "LabrinthError"
    /\ ret.probe.status_code = 503
    /\ Len(config.projects) >= 1
    /\ args.download

----------------------------------------------------------------------------
(* mod_session.py: _to_version_dependency on its own *)

Spellings == {"lower", "upper", "capitalised"}

\* the name of a dependency kind as the catalog may spell it
Spelled(kind, spelling) ==
    CASE kind = "required" ->
            (CASE spelling = "lower" -> "required" [] spelling = "upper" -> "REQUIRED"
               [] spelling = "capitalised" -> "Required")
      [] kind = "optional" ->
            (CASE spelling = "lower" -> "optional" [] spelling = "upper" -> "OPTIONAL"
               [] spelling = "capitalised" -> "Optional")
      [] kind = "incompatible" ->
            (CASE spelling = "lower" -> "incompatible" [] spelling = "upper" -> "INCOMPATIBLE"
               [] spelling = "capitalised" -> "Incompatible")
      [] kind = "embedded" ->
            (CASE spelling = "lower" -> "embedded" [] spelling = "upper" -> "EMBEDDED"
               [] spelling = "capitalised" -> "Embedded")

\* the raw dependency entries: any project, with or without a file name,
\* any kind in any spelling
RawDependencies ==
    {[ver |-> [RawDependency(DependencyNames[i], Spelled(kind, spelling))
                  EXCEPT !.file_name = file_name],
      kind |-> kind, spelling |-> spelling]
        : i \in 1..MaxDependencies, kind \in DependencyKind, spelling \in Spellings,
          file_name \in {None, PyStr(<<"dependency", "jar">>)}}

InitParse ==
    /\ pc = "parse"
    /\ session = "open"
    /\ config = None
    /\ args = None
    /\ idx = 1
    /\ versions = <<>>
    /\ optional = <<>>
    /\ trace = <<>>
    /\ fs = <<>>
    /\ exc = "none"
    /\ \E entry \in RawDependencies : ret = [entry |-> entry]

\* _to_version_dependency(data)
ParseDependency ==
    /\ pc = "parse"
    /\ \E out \in {_to_version_dependency(ret.entry.ver)} :
        ret' = [entry |-> ret.entry, out |-> out]
    /\ pc' = "parsed"
    /\ UNCHANGED <<session, config, args, idx, versions, optional, trace, fs, exc>>

NextParse == ParseDependency

SpecParse == InitParse /\ [][NextParse]_vars

\* C23: a raw entry whose dependency_type is the name of a kind in lower
\* case, in upper case or capitalised parses to that kind, and the ids and
\* the file name of the entry are copied as they are.
C23_DependencyTypeAnyCase ==
    pc = "parsed" =>
        /\ ~ret.out.raised
        /\ ret.out.value.kind = ret.entry.kind
        /\ ret.out.value.kind \in DependencyKind
        /\ ret.out.value.version_id = ret.entry.ver.version_id
        /\ ret.out.value.project_id = ret.entry.ver.project_id
        /\ ret.out.value.file_name = ret.entry.ver.file_name

\* the entry spelled REQUIRED was parsed to the kind required
C23_Witness ==
    /\ pc = "parsed"
    /\ ret.entry.ver.dependency_type = "REQUIRED"
    /\ ~ret.out.raised
    /\ ret.out.value.kind = "required"

\* the fetches and the writes of files
FileEvents == Events("fetch") \cup Events("write")

\* C24: a file is fetched or written only in a run that was given a
\* download directory, and only after every required and every optional
\* request was attempted; a run without a directory, or one in which a
\* required request failed, fetches and writes nothing.
C24_FilesOnlyAfterBothPasses ==
    /\ (FileEvents # {} \/ fs # <<>>) =>
        /\ args.download
        /\ \A i \in 1..Len(Configured) : Attempted(Configured[i])
        /\ \A a \in Events("attempt") \cup Events("query") \cup Events("report") :
                \A f \in FileEvents : a < f
    /\ ~args.download => (FileEvents = {} /\ fs = <<>> /\ Events("download") = {})
    /\ \A k \in 1..Len(config.projects) :
            Failed(config.projects[k].name) => (FileEvents = {} /\ fs = <<>>)

\* a run with a download directory, a required and an optional request has
\* written a file after an optional request found no version
C24_Witness ==
    /\ pc = "done"
    /\ args.download
    /\ Len(config.projects) >= 1
    /\ Len(config.optional_projects) >= 2
    /\ Failed(config.optional_projects[1].name)
    /\ Events("write") # {}
    /\ fs # <<>>

\* the requests sent to the catalog after the probe
RequestEvents == Events("enum") \cup Events("query") \cup Events("fetch")

\* C25: every query and every fetch is sent while the session is open:
\* nothing is sent before the session was constructed, and nothing after
\* the with block was left and the session closed.
C25_RequestsWhileSessionOpen ==
    /\ session = "none" => trace = <<>>
    /\ (session = "closed") <=> (Events("close") # {})
    /\ \A i \in RequestEvents :
            /\ \E p \in Events("probe") : p < i
            /\ \A c \in Events("close") : i < c

\* a run that fetched a file has ended with an exception and a closed
\* session
C25_Witness ==
    /\ pc = "fatal"
    /\ session = "closed"
    /\ Events("query") # {}
    /\ Events("fetch") # {}

----------------------------------------------------------------------------
(* mod_config.py: loads, and the resolution of the loaded requests *)

\* dict.get(key): None when the key is absent
dict_get(data, key) == IF key \in DOMAIN data THEN data[key] ELSE None

\* "x is None" for the value of a key
is_none(data, key) == key \notin DOMAIN data

\* a member of the enumeration LoaderKind: an object with a value
LoaderMember(value) == [t |-> "LoaderKind", value |-> value]

\* LoaderKind(loader) for the value of a key that is present
to_loader(data) ==
    IF is_none(data, "loader") THEN [raised |-> FALSE, value |-> None]
    ELSE LET kind == enum_of(LoaderKind, data.loader)
         IN IF kind.raised THEN kind
            ELSE [raised |-> FALSE, value |-> LoaderMember(kind.value)]

\* "if not data.get("defaults")": the key is absent or false
not_defaults(data) == is_none(data, "defaults") \/ ~data.defaults

_load_project(name, data) ==
    IF not_defaults(data) /\ is_none(data, "game_version")
    THEN [raised |-> FALSE, result |-> Err(<<name, ": Expected game_version">>)]
    ELSE IF not_defaults(data) /\ is_none(data, "loader")
    THEN [raised |-> FALSE, result |-> Err(<<name, ": Expected loader">>)]
    ELSE IF to_loader(data).raised
    THEN [raised |-> TRUE, exc |-> to_loader(data).exc]
    ELSE [raised |-> FALSE,
          result |-> Ok([name |-> name,
                         game_version |-> dict_get(data, "game_version"),
                         loader |-> to_loader(data).value])]

\* load_projects of loads: the first project that raises, or that expect
\* raises for, ends the loop
RECURSIVE load_projects(_, _, _)
load_projects(projects, i, result) ==
    IF i > Len(projects)
    THEN [raised |-> FALSE, value |-> result]
    ELSE LET project == _load_project(projects[i].name, projects[i].data)
         IN IF project.raised
            THEN [raised |-> TRUE, exc |-> project.exc]
            ELSE IF expect(project.result).raised
            THEN [raised |-> TRUE, exc |-> expect(project.result).exc]
            ELSE load_projects(projects, i + 1, Append(result, expect(project.result).value))

\* loads(text), on the tables tomllib.loads returns: data.defaults is the
\* table [defaults], absent keys are absent
loads(data) ==
    LET defaults == IF is_none(data, "defaults") THEN <<>> ELSE data.defaults
        default_loader == to_loader(defaults)
        projects == load_projects(dict_get(data, "projects"), 1, <<>>)
        optional_projects == load_projects(dict_get(data, "optional_projects"), 1, <<>>)
    IN IF default_loader.raised
       THEN [raised |-> TRUE, exc |-> default_loader.exc]
       ELSE IF projects.raised
       THEN [raised |-> TRUE, exc |-> projects.exc]
       ELSE IF optional_projects.raised
       THEN [raised |-> TRUE, exc |-> optional_projects.exc]
       ELSE [raised |-> FALSE,
             value |-> [game_version |-> dict_get(defaults, "game_version"),
                        loader |-> default_loader.value,
                        projects |-> projects.value,
                        optional_projects |-> optional_projects.value]]

\* session.get_project_version(name, game_version, loader) of _get_version
EvResolve(name, game_version, loader) ==
    [ev |-> "resolve", name |-> name, game_version |-> game_version, loader |-> loader]

\* get_project_version for a loader that is a member of LoaderKind or None:
\* _get_project_version reads loader.value to build the query
get_project_version_of(project, game_version, loader, r1, r2) ==
    LET value == py_getattr(loader, "value")
    IN IF value.raised
       THEN [raised |-> TRUE, exc |-> value.exc, queries |-> <<>>]
       ELSE get_project_version(project, game_version, value.value, r1, r2)

OwnGameVersion == <<"1", "20", "1">>

\* the tables a project can have in the file: with or without a game
\* version and a loader of its own, with or without the key defaults
ProjectTables ==
    {<<>>,
     [defaults |-> TRUE],
     [defaults |-> TRUE, game_version |-> OwnGameVersion],
     [defaults |-> TRUE, loader |-> "forge"],
     [defaults |-> TRUE, game_version |-> OwnGameVersion, loader |-> "forge"],
     [defaults |-> FALSE, game_version |-> OwnGameVersion, loader |-> "forge"],
     [game_version |-> OwnGameVersion],
     [game_version |-> OwnGameVersion, loader |-> "forge"]}

\* the files: a table [defaults] with a game version and a loader, or
\* none, and up to MaxProjects required projects
ConfigFiles ==
    UNION {{[defaults |-> defaults,
             projects |-> [i \in 1..n |-> [name |-> MandatoryNames[i], data |-> tables[i]]],
             optional_projects |-> <<>>]
                : defaults \in {[game_version |-> GameVersion, loader |-> "fabric"],
                                [game_version |-> GameVersion]},
                  tables \in [1..n -> ProjectTables]}
            : n \in 0..MaxProjects}

InitConfig ==
    /\ pc = "load"
    /\ session = "open"
    /\ config = None
    /\ args = None
    /\ idx = 1
    /\ versions = <<>>
    /\ optional = <<>>
    /\ trace = <<>>
    /\ fs = <<>>
    /\ exc = "none"
    /\ \E file \in ConfigFiles : ret = [file |-> file]

\* config = load_config(args.config)
LoadConfig ==
    /\ pc = "load"
    /\ \E loaded \in {loads(ret.file)} :
        IF loaded.raised
        THEN pc' = "fatal" /\ exc' = loaded.exc /\ config' = config
        ELSE pc' = "loaded" /\ exc' = exc /\ config' = loaded.value
    /\ UNCHANGED <<session, args, idx, versions, optional, trace, fs, ret>>

\* one iteration of the loop of _get_versions on the loaded requests
ResolveLoaded ==
    /\ pc = "loaded"
    /\ idx <= Len(config.projects)
    /\ \E r1, r2 \in RunResponses(config.projects[idx].name) :
       \E out \in {get_project_version_of(config.projects[idx].name,
                                          config.projects[idx].game_version,
                                          config.projects[idx].loader, r1, r2)} :
           /\ trace' = trace \o <<EvResolve(config.projects[idx].name,
                                            config.projects[idx].game_version,
                                            config.projects[idx].loader)>> \o out.queries
           /\ IF out.raised
              THEN pc' = "fatal" /\ exc' = out.exc /\ UNCHANGED <<idx, versions>>
              ELSE IF _get_versions_match(out.result) = "return"
              THEN pc' = "fatal" /\ exc' = expect(out.result).exc /\ UNCHANGED <<idx, versions>>
              ELSE /\ versions' = Append(versions, out.result.inner)
                   /\ idx' = idx + 1
                   /\ UNCHANGED <<pc, exc>>
    /\ UNCHANGED <<session, config, args, optional, fs, ret>>

NextConfig == LoadConfig \/ ResolveLoaded

SpecConfig == InitConfig /\ [][NextConfig]_vars

\* the table of the request of a name in the file
TableOf(name) ==
    ret.file.projects[CHOOSE i \in 1..Len(ret.file.projects) :
                          ret.file.projects[i].name = name].data

\* the game version the request is to be resolved for: its own, or else
\* the one of the table [defaults]
ExpectedGameVersion(name) ==
    IF "game_version" \in DOMAIN TableOf(name)
    THEN TableOf(name).game_version
    ELSE dict_get(ret.file.defaults, "game_version")

\* the loader the request is to be resolved for: its own, or else the one
\* of the table [defaults]
ExpectedLoader(name) ==
    IF "loader" \in DOMAIN TableOf(name)
    THEN LoaderMember(TableOf(name).loader)
    ELSE IF "loader" \in DOMAIN ret.file.defaults
    THEN LoaderMember(ret.file.defaults.loader)
    ELSE None

\* C26: the resolver is called for a request with the request's own game
\* version and loader where it has them and with those of the table
\* [defaults] where it inherits them, and never with an absent game
\* version or loader.
C26_DefaultsInherited ==
    \A i \in Events("resolve") :
        /\ trace[i].game_version # None
        /\ trace[i].loader # None
        /\ trace[i].game_version = ExpectedGameVersion(trace[i].name)
        /\ trace[i].loader = ExpectedLoader(trace[i].name)

====
